---- MODULE Spec2Model ----
(***************************************************************************)
(* Model of PaddleMamba: the parallel scan PScan (model/pscan.py) and the  *)
(* selective state-space block MambaBlock (model/mamba.py).                *)
(*                                                                         *)
(* Tensors are modelled one lane at a time.  The scan works on a lane      *)
(* (b, d, n) of the (B, D, L, N) tensors independently of every other      *)
(* lane, so a tensor of the scan is a sequence over the length axis; the   *)
(* code's 0-based position t is element t+1 of the sequence.  Arithmetic   *)
(* is exact integer arithmetic: the identities checked are identities of   *)
(* the ring operations + and *, not of float32 rounding.                   *)
(*                                                                         *)
(* Tensor-library calls have the meaning the code relies on: reshape and   *)
(* basic slicing give views that alias the buffer they are taken from,     *)
(* transpose([0, 2, 1]) exchanges the length axis and the channel axis,    *)
(* clone and pad give fresh buffers, and an index outside a dimension, a   *)
(* non-integer slice bound and a shape that cannot be reshaped or          *)
(* broadcast raise an exception.                                           *)
(***************************************************************************)
EXTENDS Integers, Sequences, FiniteSets, TLC

VARIABLES
    A_in,       \* PScan.forward argument deltaA, one lane, as it was handed over
    X_in,       \* PScan.forward argument BX, one lane, as it was handed over
    pc,         \* "ready", "forwarded", "backwarded", "fwd_error", "bwd_error"
    ctx,        \* ctx.save_for_backward(A_in, X): <<A_in, X>>, or <<>> before forward
    hs,         \* the tensor PScan.forward returned, or <<>>
    grad_in,    \* grad_output_in as it was handed to PScan.backward
    grads,      \* <<Q, grad>> returned by PScan.backward, or <<>>
    mem,        \* what the caller's tensors A_in, X_in, grad_output_in hold now
    config,     \* the MambaConfig of the block
    us,         \* the inputs given to MambaBlock.step so far, oldest first
    cache,      \* the cache (h, inputs) the caller holds between the steps
    y,          \* the output of the last MambaBlock.step
    spc,        \* "ok", or "error" once a MambaBlock.step has raised
    fwd         \* the result of MambaBlock.forward on us, or <<>>

scanvars == <<A_in, X_in, pc, ctx, hs, grad_in, grads, mem>>

blockvars == <<config, us, cache, y, spc, fwd>>

vars == <<scanvars, blockvars>>

(***************************************************************************)
(* Bounds of the model.                                                    *)
(***************************************************************************)
MaxL == 17      \* longest sequence handed to the scan
MaxFull == 5    \* longest sequence whose coefficients take every combination of AVals
MaxMis == 8     \* longest sequence of a call with mismatched lengths

AVals == {1, 2}         \* values of the transition coefficients

(***************************************************************************)
(* Helpers for 0-based tensors.                                            *)
(***************************************************************************)
At(T, i) == T[i + 1]

\* a tensor with its elements computed: of one, two and three axes
tensor(T) == SubSeq(T, 1, Len(T))

tensor2(T) == tensor([i \in 1..Len(T) |-> tensor(T[i])])

tensor3(T) == tensor([i \in 1..Len(T) |-> tensor2(T[i])])

Put(T, i, v) == [T EXCEPT ![i + 1] = v]

zeros(n) == tensor([i \in 1..n |-> 0])

Min(a, b) == IF a < b THEN a ELSE b

RECURSIVE Pow2(_)
Pow2(k) == IF k <= 0 THEN 1 ELSE 2 * Pow2(k - 1)

\* int(math.log2(L)) for L >= 1
RECURSIVE FloorLog2(_)
FloorLog2(n) == IF n <= 1 THEN 0 ELSE 1 + FloorLog2(n \div 2)

\* math.ceil(math.log2(len)) for len >= 1
RECURSIVE CeilLog2(_)
CeilLog2(n) == IF n <= 1 THEN 0 ELSE 1 + CeilLog2((n + 1) \div 2)

\* a next power of two that rounds the logarithm down
npo2_floor(len) == Pow2(FloorLog2(len))

npo2(len) == Pow2(CeilLog2(len))

pad_npo2(X) == X \o zeros(npo2(Len(X)) - Len(X))

\* the positions lo, lo+step, ... below hi of a buffer of n positions:
\* the basic slice [lo:hi:step]
Slice(n, lo, hi, step) ==
    LET top == Min(hi, n)
        cnt == IF top > lo THEN (top - lo + step - 1) \div step ELSE 0
    IN  tensor([j \in 1..cnt |-> lo + (j - 1) * step])

(***************************************************************************)
(* PScan.pscan and PScan.pscan_rev.  A scan in progress is a record        *)
(*   A, X   : the two buffers the scan overwrites in place                 *)
(*   av, xv : the positions of A and of X the views Aa and Xa alias        *)
(*   st     : "run", "ret" (the function returned), "err" (it raised)      *)
(***************************************************************************)
V(view, i) == view[i + 1]

\* T[idx] = val for a view idx (positions) and as many values
AssignAt(T, idx, val) ==
    tensor([j \in 1..Len(T) |->
        IF \E k \in 1..Len(idx) : idx[k] + 1 = j
        THEN val[CHOOSE k \in 1..Len(idx) : idx[k] + 1 = j]
        ELSE T[j]])

\* Aa.reshape([B, D, T//2, 2, -1]) and Xa.reshape([B, D, T//2, 2, -1]) followed
\* by an elementwise combine of the two: possible only for an even T = Xa.shape[2]
\* and an Aa of as many positions
Pairable(s) ==
    /\ Len(s.xv) > 0
    /\ Len(s.xv) % 2 = 0
    /\ Len(s.av) = Len(s.xv)

ScanStart(A, X) ==
    [A |-> A, X |-> X,
     av |-> Slice(Len(A), 0, Len(A), 1),
     xv |-> Slice(Len(X), 0, Len(X), 1),
     st |-> "run"]

\* one round of the up-sweep: slot 1 of every pair takes the combination
UpRound(s) ==
    IF ~Pairable(s) THEN [s EXCEPT !.st = "err"]
    ELSE
    LET h  == Len(s.xv) \div 2
        x0 == [i \in 1..h |-> s.xv[2 * i - 1]]
        x1 == [i \in 1..h |-> s.xv[2 * i]]
        a0 == [i \in 1..h |-> s.av[2 * i - 1]]
        a1 == [i \in 1..h |-> s.av[2 * i]]
        X1 == AssignAt(s.X, x1,
                [i \in 1..h |-> At(s.X, x1[i]) + At(s.A, a1[i]) * At(s.X, x0[i])])
        A1 == AssignAt(s.A, a1,
                [i \in 1..h |-> At(s.A, a0[i]) * At(s.A, a1[i])])
    IN  [A |-> A1, X |-> X1, av |-> a1, xv |-> x1, st |-> "run"]

\* for _ in range(num_steps-2)
RECURSIVE UpSweep(_, _)
UpSweep(s, n) ==
    IF n <= 0 \/ s.st # "run" THEN s ELSE UpSweep(UpRound(s), n - 1)

\* the base case on the 4, 2 or other number of positions left
PScanBase(s) ==
    IF s.st # "run" THEN s
    ELSE IF Len(s.xv) = 4 THEN
        IF Len(s.av) < 4 THEN [s EXCEPT !.st = "err"]
        ELSE
        LET X1 == Put(s.X, V(s.xv, 1),
                      At(s.X, V(s.xv, 1)) + At(s.A, V(s.av, 1)) * At(s.X, V(s.xv, 0)))
            A1 == Put(s.A, V(s.av, 1), At(s.A, V(s.av, 0)) * At(s.A, V(s.av, 1)))
            X2 == Put(X1, V(s.xv, 3),
                      At(X1, V(s.xv, 3))
                      + At(A1, V(s.av, 3))
                        * (At(X1, V(s.xv, 2)) + At(A1, V(s.av, 2)) * At(X1, V(s.xv, 1))))
        IN  [s EXCEPT !.X = X2, !.A = A1]
    ELSE IF Len(s.xv) = 2 THEN
        IF Len(s.av) < 2 THEN [s EXCEPT !.st = "err"]
        ELSE [s EXCEPT !.X = Put(s.X, V(s.xv, 1),
                 At(s.X, V(s.xv, 1)) + At(s.A, V(s.av, 1)) * At(s.X, V(s.xv, 0)))]
    ELSE [s EXCEPT !.st = "ret"]

\* the statements between the base case and the down-sweep: the views are
\* A[:, :, 2**(num_steps-2)-1:L:2**(num_steps-2)] and the same of X; for
\* num_steps < 2 the bound 2**(num_steps-2) is a fraction and slicing raises
PScanMid(s, L, num_steps) ==
    IF s.st # "run" THEN s
    ELSE IF num_steps < 2 THEN [s EXCEPT !.st = "err"]
    ELSE
    LET w  == Pow2(num_steps - 2)
        av == Slice(Len(s.A), w - 1, L, w)
        xv == Slice(Len(s.X), w - 1, L, w)
    IN  IF Len(xv) < 3 \/ Len(av) < 3 THEN [s EXCEPT !.st = "err"]
        ELSE
        LET X1 == Put(s.X, V(xv, 2),
                      At(s.X, V(xv, 2)) + At(s.A, V(av, 2)) * At(s.X, V(xv, 1)))
            A1 == Put(s.A, V(av, 2), At(s.A, V(av, 1)) * At(s.A, V(av, 2)))
        IN  [A |-> A1, X |-> X1, av |-> av, xv |-> xv, st |-> "run"]

\* one round of the down-sweep at stride 2**k: slot 0 of every pair but the
\* first takes the combination with slot 1 of the pair before it
DownRound(s, L, k) ==
    LET w  == Pow2(k)
        s1 == [s EXCEPT !.av = Slice(Len(s.A), w - 1, L, w),
                        !.xv = Slice(Len(s.X), w - 1, L, w)]
    IN  IF ~Pairable(s1) THEN [s1 EXCEPT !.st = "err"]
        ELSE
        LET h  == Len(s1.xv) \div 2
            xd == [i \in 1..(h - 1) |-> s1.xv[2 * i + 1]]
            xp == [i \in 1..(h - 1) |-> s1.xv[2 * i]]
            ad == [i \in 1..(h - 1) |-> s1.av[2 * i + 1]]
            ap == [i \in 1..(h - 1) |-> s1.av[2 * i]]
            X1 == AssignAt(s1.X, xd,
                    [i \in 1..(h - 1) |->
                        At(s1.X, xd[i]) + At(s1.A, ad[i]) * At(s1.X, xp[i])])
            A1 == AssignAt(s1.A, ad,
                    [i \in 1..(h - 1) |-> At(s1.A, ad[i]) * At(s1.A, ap[i])])
        IN  [s1 EXCEPT !.X = X1, !.A = A1]

\* for k in range(num_steps-3, -1, -1)
RECURSIVE DownSweep(_, _, _)
DownSweep(s, L, k) ==
    IF k < 0 \/ s.st # "run" THEN s ELSE DownSweep(DownRound(s, L, k), L, k - 1)

ScanEnd(s) == IF s.st = "run" THEN [s EXCEPT !.st = "ret"] ELSE s

pscan(A, X) ==
    LET L         == Len(A)
        num_steps == FloorLog2(L)
    IN  ScanEnd(DownSweep(PScanMid(PScanBase(UpSweep(ScanStart(A, X), num_steps - 2)),
                                   L, num_steps),
                          L, num_steps - 3))

\* ---- the mirror image, scanning from the end toward the start ----

UpRound_rev(s) ==
    IF ~Pairable(s) THEN [s EXCEPT !.st = "err"]
    ELSE
    LET h  == Len(s.xv) \div 2
        x0 == [i \in 1..h |-> s.xv[2 * i - 1]]
        x1 == [i \in 1..h |-> s.xv[2 * i]]
        a0 == [i \in 1..h |-> s.av[2 * i - 1]]
        a1 == [i \in 1..h |-> s.av[2 * i]]
        X1 == AssignAt(s.X, x0,
                [i \in 1..h |-> At(s.X, x0[i]) + At(s.A, a0[i]) * At(s.X, x1[i])])
        A1 == AssignAt(s.A, a0,
                [i \in 1..h |-> At(s.A, a1[i]) * At(s.A, a0[i])])
    IN  [A |-> A1, X |-> X1, av |-> a0, xv |-> x0, st |-> "run"]

RECURSIVE UpSweep_rev(_, _)
UpSweep_rev(s, n) ==
    IF n <= 0 \/ s.st # "run" THEN s ELSE UpSweep_rev(UpRound_rev(s), n - 1)

PScanBase_rev(s) ==
    IF s.st # "run" THEN s
    ELSE IF Len(s.xv) = 4 THEN
        IF Len(s.av) < 4 THEN [s EXCEPT !.st = "err"]
        ELSE
        LET X1 == Put(s.X, V(s.xv, 2),
                      At(s.X, V(s.xv, 2)) + At(s.A, V(s.av, 2)) * At(s.X, V(s.xv, 3)))
            A1 == Put(s.A, V(s.av, 2), At(s.A, V(s.av, 3)) * At(s.A, V(s.av, 2)))
            X2 == Put(X1, V(s.xv, 0),
                      At(X1, V(s.xv, 0))
                      + At(A1, V(s.av, 0))
                        * (At(X1, V(s.xv, 1)) + At(A1, V(s.av, 1)) * At(X1, V(s.xv, 2))))
        IN  [s EXCEPT !.X = X2, !.A = A1]
    ELSE IF Len(s.xv) = 2 THEN
        IF Len(s.av) < 2 THEN [s EXCEPT !.st = "err"]
        ELSE [s EXCEPT !.X = Put(s.X, V(s.xv, 0),
                 At(s.X, V(s.xv, 0)) + At(s.A, V(s.av, 0)) * At(s.X, V(s.xv, 1)))]
    ELSE [s EXCEPT !.st = "ret"]

PScanMid_rev(s, L, num_steps) ==
    IF s.st # "run" THEN s
    ELSE IF num_steps < 2 THEN [s EXCEPT !.st = "err"]
    ELSE
    LET w  == Pow2(num_steps - 2)
        av == Slice(Len(s.A), 0, L, w)
        xv == Slice(Len(s.X), 0, L, w)
    IN  IF Len(xv) < 3 \/ Len(av) < 3 THEN [s EXCEPT !.st = "err"]
        ELSE
        LET X1 == Put(s.X, V(xv, 1),
                      At(s.X, V(xv, 1)) + At(s.A, V(av, 1)) * At(s.X, V(xv, 2)))
            A1 == Put(s.A, V(av, 1), At(s.A, V(av, 2)) * At(s.A, V(av, 1)))
        IN  [A |-> A1, X |-> X1, av |-> av, xv |-> xv, st |-> "run"]

DownRound_rev(s, L, k) ==
    LET w  == Pow2(k)
        s1 == [s EXCEPT !.av = Slice(Len(s.A), 0, L, w),
                        !.xv = Slice(Len(s.X), 0, L, w)]
    IN  IF ~Pairable(s1) THEN [s1 EXCEPT !.st = "err"]
        ELSE
        LET h  == Len(s1.xv) \div 2
            xd == [i \in 1..(h - 1) |-> s1.xv[2 * i]]
            xn == [i \in 1..(h - 1) |-> s1.xv[2 * i + 1]]
            ad == [i \in 1..(h - 1) |-> s1.av[2 * i]]
            an == [i \in 1..(h - 1) |-> s1.av[2 * i + 1]]
            X1 == AssignAt(s1.X, xd,
                    [i \in 1..(h - 1) |->
                        At(s1.X, xd[i]) + At(s1.A, ad[i]) * At(s1.X, xn[i])])
            A1 == AssignAt(s1.A, ad,
                    [i \in 1..(h - 1) |-> At(s1.A, an[i]) * At(s1.A, ad[i])])
        IN  [s1 EXCEPT !.X = X1, !.A = A1]

RECURSIVE DownSweep_rev(_, _, _)
DownSweep_rev(s, L, k) ==
    IF k < 0 \/ s.st # "run" THEN s
    ELSE DownSweep_rev(DownRound_rev(s, L, k), L, k - 1)

pscan_rev(A, X) ==
    LET L         == Len(A)
        num_steps == FloorLog2(L)
    IN  ScanEnd(DownSweep_rev(
                    PScanMid_rev(PScanBase_rev(UpSweep_rev(ScanStart(A, X), num_steps - 2)),
                                 L, num_steps),
                    L, num_steps - 3))

(***************************************************************************)
(* The sequential recurrence, as the loop of selective_scan_seq runs it.   *)
(***************************************************************************)
\* h after the steps 0..t-1 of: h = deltaA[:, t] * h + BX[:, t], from h = 0
RECURSIVE SeqState(_, _, _)
SeqState(deltaA, BX, t) ==
    IF t = 0 THEN 0
    ELSE At(deltaA, t - 1) * SeqState(deltaA, BX, t - 1) + At(BX, t - 1)

\* hs = paddle.stack(hs, dim=1)
scan_seq(deltaA, BX) == tensor([t \in 1..Len(BX) |-> SeqState(deltaA, BX, t)])

(***************************************************************************)
(* PScan.forward and PScan.backward.                                       *)
(***************************************************************************)
\* A tensor object is known by a reference; bufs gives what each object holds,
\* <<>> for one not yet made.  An in-place write through a reference changes
\* bufs at that reference, for every holder of the object.
new_tensor(bufs, id, T) == [bufs |-> [bufs EXCEPT ![id] = T], ref |-> id]

\* the value of a computation done once
Only(S) == CHOOSE v \in S : TRUE

\* a copy that is the object it was asked to copy
clone_alias(bufs, ref, id) == [bufs |-> bufs, ref |-> ref]

\* A_in.clone(): a new object with the contents of the old one
clone(bufs, ref, id) == new_tensor(bufs, id, bufs[ref])

\* pad_npo2(A_in): F.pad builds a new object
pad_npo2_new(bufs, ref, id) == new_tensor(bufs, id, pad_npo2(bufs[ref]))

\* the result of a call: raised tells whether it ended in an exception, buf is
\* the buffer X the scan worked on as the call left it, args is what the
\* caller's A_in and X_in hold when the call is over; saved is what the tensors
\* of ctx.save_for_backward(A_in, X) hold, the first being the caller's A_in
PScan_forward(A_arg, X_arg) ==
    LET b0  == [A_in |-> A_arg, X_in |-> X_arg, A |-> <<>>, X |-> <<>>]
        L   == Len(X_arg)
        a   == IF L = npo2(L) THEN clone(b0, "A_in", "A")
               ELSE pad_npo2_new(b0, "A_in", "A")
        x   == IF L = npo2(L) THEN clone(a.bufs, "X_in", "X")
               ELSE pad_npo2_new(a.bufs, "X_in", "X")
        A   == x.bufs[a.ref]
        X   == x.bufs[x.ref]
    IN  Only({
            LET b1 == [x.bufs EXCEPT ![a.ref] = s.A, ![x.ref] = s.X]
            IN  IF s.st = "err"
                THEN [raised |-> TRUE, saved |-> <<>>, ret |-> <<>>, buf |-> s.X,
                      args |-> <<b1.A_in, b1.X_in>>]
                ELSE [raised |-> FALSE, saved |-> <<b1.A_in, s.X>>,
                      ret |-> SubSeq(s.X, 1, L), buf |-> s.X,
                      args |-> <<b1.A_in, b1.X_in>>]
            : s \in {pscan(A, X)} })

\* a transition array left unshifted
ShiftLeft_none(A) == A

\* A = pad(A_in[:, :, 1:], (0, 0, 0, 1)): position t holds A_in at t+1, the
\* last position holds 0
ShiftLeft(A) == Tail(A) \o <<0>>

\* a gradient that pairs the hidden state and the gradient of the same step
GradA_same(X, grad_output) ==
    tensor([t \in 1..Len(X) |-> IF t = 1 THEN 0 ELSE 0 + X[t] * grad_output[t]])

\* Q = zeros_like(X); Q[:, :, 1:] = Q[:, :, 1:] + X[:, :, :-1] * grad_output[:, :, 1:]
GradA(X, grad_output) ==
    tensor([t \in 1..Len(X) |-> IF t = 1 THEN 0 ELSE 0 + X[t - 1] * grad_output[t]])

\* saved is what the recorded tensors hold when the call is over, arg what the
\* caller's grad_output_in holds
PScan_backward(saved, grad_output_in) ==
    LET b0    == [A_in |-> saved[1], X |-> saved[2],
                  grad_output_in |-> grad_output_in, grad_output |-> <<>>,
                  A_pad |-> <<>>, A |-> <<>>]
        L     == Len(grad_output_in)
        g     == IF L = npo2(L) THEN clone(b0, "grad_output_in", "grad_output")
                 ELSE pad_npo2_new(b0, "grad_output_in", "grad_output")
        a0    == IF L = npo2(L) THEN [bufs |-> g.bufs, ref |-> "A_in"]
                 ELSE pad_npo2_new(g.bufs, "A_in", "A_pad")
        a     == new_tensor(a0.bufs, "A", ShiftLeft(a0.bufs[a0.ref]))
        A     == a.bufs[a.ref]
        grad  == a.bufs[g.ref]
    IN  Only({
            LET b1 == [a.bufs EXCEPT ![a.ref] = s.A, ![g.ref] = s.X]
                X  == b1.X
            IN  IF s.st = "err" \/ Len(X) # Len(s.X)
                THEN [raised |-> TRUE, ret |-> <<>>, saved |-> <<b1.A_in, b1.X>>,
                      arg |-> b1.grad_output_in]
                ELSE [raised |-> FALSE,
                      ret |-> <<SubSeq(GradA(X, s.X), 1, L), SubSeq(s.X, 1, L)>>,
                      saved |-> <<b1.A_in, b1.X>>, arg |-> b1.grad_output_in]
            : s \in {pscan_rev(A, grad)} })

(***************************************************************************)
(* The inputs the scan is run on.                                          *)
(***************************************************************************)
ones(n) == tensor([i \in 1..n |-> 1])

ramp(n) == tensor([i \in 1..n |-> i])

impulse(n, k) == tensor([i \in 1..n |-> IF i = k THEN 1 ELSE 0])

\* injection terms: the scan is linear in BX, so the unit impulses span them
XFamily(n) == {impulse(n, k) : k \in 1..n} \cup {ones(n)}

\* transition coefficients: every combination of AVals on a short sequence; on
\* a longer one the constant sequences and those with a single coefficient 2
AFamily(n) ==
    IF n <= MaxFull THEN [1..n -> AVals]
    ELSE {[i \in 1..n |-> 1 + impulse(n, k)[i]] : k \in 1..n}
         \cup {[i \in 1..n |-> a] : a \in AVals}

\* upstream gradients
GFamily(n) == {ones(n), ramp(n), impulse(n, n)}

ScanInit ==
    /\ \/ \E L \in 1..MaxL :
            /\ A_in \in AFamily(L)
            /\ X_in \in XFamily(L)
       \/ \E LA \in 1..MaxMis, LX \in 1..MaxMis :
            /\ LA # LX
            /\ A_in = [i \in 1..LA |-> 2]
            /\ X_in \in XFamily(LX)
    /\ pc = "ready"
    /\ ctx = <<>>
    /\ hs = <<>>
    /\ grad_in = <<>>
    /\ grads = <<>>
    /\ mem = [A_in |-> A_in, X_in |-> X_in, grad_output_in |-> <<>>]

\* hs = pscan(deltaA, BX)
Forward ==
    /\ pc = "ready"
    /\ \E r \in {PScan_forward(A_in, X_in)} :
           /\ pc' = IF r.raised THEN "fwd_error" ELSE "forwarded"
           /\ ctx' = r.saved
           /\ hs' = r.ret
           /\ mem' = [mem EXCEPT !.A_in = r.args[1], !.X_in = r.args[2]]
    /\ UNCHANGED <<A_in, X_in, grad_in, grads>>

\* the gradient of the returned tensor, of its shape, is propagated back
Backward ==
    /\ pc = "forwarded"
    /\ \E G \in GFamily(Len(hs)) :
        \E r \in {PScan_backward(ctx, G)} :
            /\ grad_in' = G
            /\ pc' = IF r.raised THEN "bwd_error" ELSE "backwarded"
            /\ grads' = r.ret
            /\ ctx' = r.saved
            /\ mem' = [mem EXCEPT !.A_in = r.saved[1], !.grad_output_in = r.arg]
    /\ UNCHANGED <<A_in, X_in, hs>>

(***************************************************************************)
(* MambaBlock.  One batch lane of the data is modelled, with d_model = 1   *)
(* and dt_rank = 1 (its 'auto' value for d_model = 1), so that a timestep  *)
(* of the block input is one number, and d_inner = expand_factor; the      *)
(* batch size enters through the tensor shapes.  A vector over the         *)
(* channels or over the state is a sequence.                               *)
(*                                                                         *)
(* The trainable parameters hold fixed integers.  The real functions are   *)
(* replaced by integer functions of the same shape: silu and the           *)
(* normalisation are rounded to the nearest integer, softplus is rounded   *)
(* up (it stays positive), the exponential is taken in base 2 and scaled.  *)
(***************************************************************************)
MaxT == 3       \* most steps of a generation
MaxConv == 3    \* largest convolution window d_conv

UVals == {-1, 1}        \* values of a timestep of the block input

ConfigSet ==
    [d_inner : {1, 2}, d_state : {1, 2}, d_conv : 1..MaxConv, batch : {1, 2},
     inner_layernorms : BOOLEAN, pscan : BOOLEAN]

RECURSIVE SeqSum(_)
SeqSum(v) == IF v = <<>> THEN 0 ELSE Head(v) + SeqSum(Tail(v))

\* in_proj.weight, conv1D.weight, conv1D.bias, x_proj.weight, dt_proj.weight,
\* dt_proj.bias, out_proj.weight, D, and A = -exp(A_log)
W_in(j) == j
w_conv(e, j) == 1 + ((e + j) % 2)
b_conv(e) == e - 1
W_x(r, e) == IF (r + e) % 3 = 0 THEN -1 ELSE 1
W_dt(e) == IF e % 2 = 1 THEN 1 ELSE -1
b_dt(e) == e - 1
W_out(e) == e
D_skip(e) == 1
A_neg(e, n) == -n

\* F.silu, to the nearest integer
silu(v) == IF v > 0 THEN v ELSE 0

\* F.softplus, rounded up
softplus(v) == (IF v > 0 THEN v ELSE 0) + 1

\* paddle.exp, as 16 * 2^v and at least 1
exp(v) == IF v >= -4 THEN Pow2(4 + v) ELSE 1

\* RMSNorm.forward with weight 1: x * rsqrt(mean(x^2) + eps), to the nearest
\* integer (q is the nearest integer to |x_i| / sqrt(mean(x^2)))
RMSNorm(x) ==
    LET n == Len(x)
        S == SeqSum([i \in 1..n |-> x[i] * x[i]])
        q(i) == Cardinality({k \in 1..(n + 1) :
                    (2 * k - 1) * (2 * k - 1) * S <= 4 * n * x[i] * x[i]})
    IN  tensor([i \in 1..n |-> IF x[i] < 0 THEN -q(i) ELSE q(i)])

\* MambaBlock._apply_layernorms: the three norms exist when inner_layernorms is set
apply_layernorms(cfg, dt, B, C) ==
    IF cfg.inner_layernorms
    THEN [dt |-> RMSNorm(dt), B |-> RMSNorm(B), C |-> RMSNorm(C)]
    ELSE [dt |-> dt, B |-> B, C |-> C]

\* xz = in_proj(x); x, z = xz.chunk(2)
in_proj(cfg, u) == tensor([j \in 1..(2 * cfg.d_inner) |-> W_in(j) * u])

chunk_x(cfg, xz) == SubSeq(xz, 1, cfg.d_inner)

chunk_z(cfg, xz) == SubSeq(xz, cfg.d_inner + 1, 2 * cfg.d_inner)

\* conv1D on channel e of a sequence: kernel_size = d_conv, padding = d_conv - 1
\* on both sides, one output for every position of the window
conv1D(cfg, e, seq) ==
    LET k      == cfg.d_conv
        padded == zeros(k - 1) \o seq \o zeros(k - 1)
    IN  tensor([i \in 1..(Len(padded) - k + 1) |->
            b_conv(e) + SeqSum([j \in 1..k |-> w_conv(e, j) * padded[i + j - 1]])])

\* deltaBC = x_proj(x); delta, B, C = paddle.split(deltaBC, [dt_rank, d_state, d_state])
x_proj(cfg, x) ==
    tensor([r \in 1..(1 + 2 * cfg.d_state) |->
        SeqSum([e \in 1..cfg.d_inner |-> W_x(r, e) * x[e]])])

split_delta(cfg, deltaBC) == SubSeq(deltaBC, 1, 1)

split_B(cfg, deltaBC) == SubSeq(deltaBC, 2, 1 + cfg.d_state)

split_C(cfg, deltaBC) == SubSeq(deltaBC, 2 + cfg.d_state, 1 + 2 * cfg.d_state)

\* delta = F.softplus(dt_proj(delta))
dt_proj(cfg, dt) ==
    tensor([e \in 1..cfg.d_inner |-> softplus(W_dt(e) * dt[1] + b_dt(e))])

\* deltaA = exp(delta.unsqueeze(-1) * A); deltaB = delta.unsqueeze(-1) * B.unsqueeze;
\* BX = deltaB * x.unsqueeze(-1)
discretize(cfg, x, delta, B) ==
    [deltaA |-> tensor2([e \in 1..cfg.d_inner |-> [n \in 1..cfg.d_state |->
                    exp(delta[e] * A_neg(e, n))]]),
     BX     |-> tensor2([e \in 1..cfg.d_inner |-> [n \in 1..cfg.d_state |->
                    (delta[e] * B[n]) * x[e]]])]

\* the parameterization of one timestep in MambaBlock.ssm
ssm_params(cfg, x) ==
    LET deltaBC == x_proj(cfg, x)
        n       == apply_layernorms(cfg, split_delta(cfg, deltaBC),
                                    split_B(cfg, deltaBC), split_C(cfg, deltaBC))
        delta   == dt_proj(cfg, n.dt)
        d       == discretize(cfg, x, delta, n.B)
    IN  [deltaA |-> d.deltaA, BX |-> d.BX, C |-> n.C]

\* the parameterization of the timestep in MambaBlock.ssm_step
ssm_step_params(cfg, x) ==
    LET deltaBC == x_proj(cfg, x)
        delta   == dt_proj(cfg, split_delta(cfg, deltaBC))
        d       == discretize(cfg, x, delta, split_B(cfg, deltaBC))
    IN  [deltaA |-> d.deltaA, BX |-> d.BX, C |-> split_C(cfg, deltaBC)]

\* y = (h @ C.unsqueeze(-1)).squeeze(..) + D * x
ssm_output(cfg, h, C, x) ==
    tensor([e \in 1..cfg.d_inner |->
        SeqSum([n \in 1..cfg.d_state |-> h[e][n] * C[n]]) + D_skip(e) * x[e]])

\* output = out_proj(y * z)
out_proj(cfg, yv, z) == SeqSum([e \in 1..cfg.d_inner |-> W_out(e) * (yv[e] * z[e])])

(***************************************************************************)
(* MambaBlock.forward: the batch evaluator on a whole sequence.            *)
(***************************************************************************)
\* lane (e, n) of a (L, ED, N) tensor given as a sequence over the timesteps
lane(T, e, n) == tensor([t \in 1..Len(T) |-> T[t][e][n]])

\* hs = pscan(deltaA, BX) in selective_scan, the loop of selective_scan_seq otherwise
scan_lanes(cfg, deltaA, BX) ==
    tensor2([e \in 1..cfg.d_inner |-> [n \in 1..cfg.d_state |->
        IF cfg.pscan
        THEN PScan_forward(lane(deltaA, e, n), lane(BX, e, n))
        ELSE [raised |-> FALSE, saved |-> <<>>,
              ret |-> scan_seq(lane(deltaA, e, n), lane(BX, e, n)),
              buf |-> <<>>]]])

MambaBlock_forward(cfg, useq) ==
    LET L    == Len(useq)
        ED   == cfg.d_inner
        xz   == tensor2([t \in 1..L |-> in_proj(cfg, useq[t])])
        xcv  == tensor2([e \in 1..ED |->
                    SubSeq(conv1D(cfg, e, [t \in 1..L |-> chunk_x(cfg, xz[t])[e]]), 1, L)])
        x    == tensor2([t \in 1..L |-> [e \in 1..ED |-> silu(xcv[e][t])]])
        z    == tensor2([t \in 1..L |-> [e \in 1..ED |-> silu(chunk_z(cfg, xz[t])[e])]])
        P    == tensor([t \in 1..L |-> ssm_params(cfg, x[t])])
        dA   == tensor([t \in 1..L |-> P[t].deltaA])
        BX   == tensor([t \in 1..L |-> P[t].BX])
        r    == scan_lanes(cfg, dA, BX)
        bad  == \E e \in 1..ED, n \in 1..cfg.d_state : r[e][n].raised
        hst  == IF bad THEN <<>>
                ELSE tensor3([t \in 1..L |-> [e \in 1..ED |-> [n \in 1..cfg.d_state |->
                        r[e][n].ret[t]]]])
    IN  [done   |-> TRUE,
         raised |-> bad,
         BX     |-> BX,
         buf    |-> tensor2([e \in 1..ED |-> [n \in 1..cfg.d_state |-> r[e][n].buf]]),
         hs     |-> hst,
         out    |-> IF bad THEN <<>>
                    ELSE tensor([t \in 1..L |->
                            out_proj(cfg, ssm_output(cfg, hst[t], P[t].C, x[t]), z[t])])]

(***************************************************************************)
(* Tensor shapes of the incremental evaluator.                             *)
(***************************************************************************)
Max(a, b) == IF a > b THEN a ELSE b

\* dimension i of a shape counted from the right, 1 where the shape is shorter
DimR(sh, i) == IF i <= Len(sh) THEN sh[Len(sh) - i + 1] ELSE 1

BroadcastOK(a, b) ==
    \A i \in 1..Max(Len(a), Len(b)) :
        DimR(a, i) = DimR(b, i) \/ DimR(a, i) = 1 \/ DimR(b, i) = 1

Broadcast(a, b) ==
    LET r == Max(Len(a), Len(b))
    IN  tensor([i \in 1..r |-> Max(DimR(a, r - i + 1), DimR(b, r - i + 1))])

\* Tensor.squeeze(axis): the axis is dropped when its size is 1
squeeze(sh, axis) ==
    IF axis < Len(sh) /\ sh[axis + 1] = 1
    THEN tensor([i \in 1..(Len(sh) - 1) |-> IF i <= axis THEN sh[i] ELSE sh[i + 1]])
    ELSE sh

\* a zero state that is not zero
zero_state_ones(cfg) == tensor([e \in 1..cfg.d_inner |-> ones(cfg.d_state)])

\* paddle.zeros(x.size(0), d_inner, d_state): the data of one batch lane
zero_state(cfg) == tensor([e \in 1..cfg.d_inner |-> zeros(cfg.d_state)])

\* the shapes through ssm_step and the rest of step for a state h of shape hin:
\* ok tells whether every operation accepts its operands, h_out is the shape of
\* the state ssm_step returns
step_shapes(cfg, hin) ==
    LET B3   == <<cfg.batch, cfg.d_inner, cfg.d_state>>
        B2   == <<cfg.batch, cfg.d_inner>>
        h1   == Broadcast(Broadcast(B3, hin), B3)
        ymm  == squeeze(<<Max(h1[1], cfg.batch), h1[2], 1>>, 2)
        ysum == Broadcast(ymm, B2)
        yz   == Broadcast(ysum, B2)
    IN  [ok    |-> /\ BroadcastOK(B3, hin)
                   /\ h1[3] = cfg.d_state
                   /\ BroadcastOK(<<h1[1]>>, <<cfg.batch>>)
                   /\ BroadcastOK(ymm, B2)
                   /\ yz[Len(yz)] = cfg.d_inner,
         h_out |-> squeeze(h1, 1)]

(***************************************************************************)
(* MambaBlock.step and MambaBlock.ssm_step.                                *)
(***************************************************************************)
\* y, h = ssm_step(x, h) on the data of one batch lane
ssm_step(cfg, x, c) ==
    LET P  == ssm_step_params(cfg, x)
        h0 == IF c.h_none THEN zero_state(cfg) ELSE c.h
        h1 == tensor2([e \in 1..cfg.d_inner |-> [n \in 1..cfg.d_state |->
                    P.deltaA[e][n] * h0[e][n] + P.BX[e][n]]])
    IN  [y |-> ssm_output(cfg, h1, P.C, x), h |-> h1, BX |-> P.BX]

\* inputs = paddle.cat([inputs[:, :, 1:], x_cache], dim=2)
roll(inputs, x_cache) == SubSeq(inputs, 2, Len(inputs)) \o <<x_cache>>

\* x = silu(conv1D(paddle.cat([inputs, x_cache], dim=2))[:, :, d_conv-1])
step_x(cfg, window) ==
    tensor([e \in 1..cfg.d_inner |->
        silu(At(conv1D(cfg, e, [i \in 1..Len(window) |-> window[i][e]]),
                cfg.d_conv - 1))])

MambaBlock_step(cfg, u, c) ==
    LET ED      == cfg.d_inner
        xz      == in_proj(cfg, u)
        x_cache == chunk_x(cfg, xz)
        window  == c.inputs \o <<x_cache>>
        x       == step_x(cfg, window)
        r       == ssm_step(cfg, x, c)
        z       == tensor([e \in 1..ED |-> silu(chunk_z(cfg, xz)[e])])
        sh      == step_shapes(cfg, IF c.h_none
                                    THEN <<cfg.batch, cfg.d_inner, cfg.d_state>>
                                    ELSE c.h_shape)
    IN  [raised |-> ~sh.ok,
         output |-> out_proj(cfg, r.y, z),
         window |-> window,
         cache  |-> [h_none |-> FALSE, h_shape |-> sh.h_out, h |-> r.h,
                     inputs |-> roll(c.inputs, x_cache)]]

NoForward == [done |-> FALSE, raised |-> FALSE, BX |-> <<>>, buf |-> <<>>,
              hs |-> <<>>, out |-> <<>>]

\* the cache (None, paddle.zeros()) a generation starts from
ZeroCache(cfg) ==
    [h_none |-> TRUE, h_shape |-> <<>>, h |-> <<>>,
     inputs |-> tensor([i \in 1..(cfg.d_conv - 1) |-> zeros(cfg.d_inner)])]

BlockInit ==
    /\ config \in ConfigSet
    /\ us = <<>>
    /\ cache = ZeroCache(config)
    /\ y = 0
    /\ spc = "ok"
    /\ fwd = NoForward

\* output, cache = block.step(x, cache)
Step ==
    /\ spc = "ok"
    /\ Len(us) < MaxT
    /\ \E u \in UVals :
        LET r == MambaBlock_step(config, u, cache)
        IN  /\ us' = Append(us, u)
            /\ spc' = IF r.raised THEN "error" ELSE "ok"
            /\ cache' = IF r.raised THEN cache ELSE r.cache
            /\ y' = IF r.raised THEN y ELSE r.output
    /\ fwd' = NoForward
    /\ UNCHANGED config

\* the batch evaluator run on the inputs the steps were given
BlockForward ==
    /\ Len(us) >= 1
    /\ ~fwd.done
    /\ fwd' = MambaBlock_forward(config, us)
    /\ UNCHANGED <<config, us, cache, y, spc>>

\* the part of the state a specification leaves alone
ScanIdle ==
    /\ A_in = <<>> /\ X_in = <<>> /\ pc = "idle"
    /\ ctx = <<>> /\ hs = <<>> /\ grad_in = <<>> /\ grads = <<>>
    /\ mem = [A_in |-> <<>>, X_in |-> <<>>, grad_output_in |-> <<>>]

BlockIdle ==
    /\ config = [d_inner |-> 2, d_state |-> 1, d_conv |-> 2, batch |-> 1,
                 inner_layernorms |-> TRUE, pscan |-> TRUE]
    /\ us = <<>>
    /\ cache = ZeroCache(config)
    /\ y = 0
    /\ spc = "idle"
    /\ fwd = NoForward

(***************************************************************************)
(* The specifications: Spec runs the scan, SpecStep runs the block.        *)
(***************************************************************************)
Init == ScanInit /\ BlockIdle

Next ==
    \/ Forward /\ UNCHANGED blockvars
    \/ Backward /\ UNCHANGED blockvars

Spec == Init /\ [][Next]_vars

InitStep == ScanIdle /\ BlockInit

NextStep ==
    \/ Step /\ UNCHANGED scanvars
    \/ BlockForward /\ UNCHANGED scanvars

SpecStep == InitStep /\ [][NextStep]_vars

(***************************************************************************)
(* Reference definitions the claims are stated with.                       *)
(***************************************************************************)
IsPow2(n) == \E k \in 0..n : Pow2(k) = n

EqualLengths == Len(A_in) = Len(X_in)

Returned == pc \in {"forwarded", "backwarded", "bwd_error"}

\* g_t = G_t + deltaA_{t+1} * g_{t+1}, g_{L-1} = G_{L-1}  (t is 0-based)
RECURSIVE RevState(_, _, _)
RevState(deltaA, G, t) ==
    IF t >= Len(G) - 1 THEN At(G, t)
    ELSE At(G, t) + At(deltaA, t + 1) * RevState(deltaA, G, t + 1)

\* the product deltaA_lo * ... * deltaA_hi
RECURSIVE Prod(_, _, _)
Prod(deltaA, lo, hi) ==
    IF lo > hi THEN 1 ELSE At(deltaA, lo) * Prod(deltaA, lo + 1, hi)

\* d(sum_s G_s * h_s) / d BX_t = sum_{s >= t} G_s * deltaA_{t+1} * ... * deltaA_s
RECURSIVE DLossDBX(_, _, _, _)
DLossDBX(deltaA, G, t, s) ==
    IF s >= Len(G) THEN 0
    ELSE At(G, s) * Prod(deltaA, t + 1, s) + DLossDBX(deltaA, G, t, s + 1)

\* C1: for deltaA and BX of equal length the parallel scan returns, at every
\* position, the state of the sequential recurrence h_t = deltaA_t * h_{t-1} + BX_t
\* from h_{-1} = 0
C1_ScanEqualsSeq ==
    (EqualLengths /\ pc # "ready") =>
        /\ pc # "fwd_error"
        /\ hs = scan_seq(A_in, X_in)

\* C2: the lengths 1 and 2 are base cases of the scan: it returns BX_0 for L = 1
\* and [BX_0, BX_1 + deltaA_1 * BX_0] for L = 2, and raises for neither
C2_DegenerateLengths ==
    (EqualLengths /\ Len(X_in) \in {1, 2} /\ pc # "ready") =>
        /\ pc # "fwd_error"
        /\ Len(X_in) = 1 => hs = <<At(X_in, 0)>>
        /\ Len(X_in) = 2 => hs = <<At(X_in, 0), At(X_in, 1) + At(A_in, 1) * At(X_in, 0)>>

\* C4: the second value PScan.backward returns is the reverse recurrence
\* g_t = G_t + deltaA_{t+1} * g_{t+1} from g_{L-1} = G_{L-1}, which is the partial
\* derivative of sum_t G_t * h_t with respect to BX_t
C4_GradBX ==
    (pc = "backwarded" /\ EqualLengths) =>
        /\ Len(grads[2]) = Len(grad_in)
        /\ \A t \in 0..(Len(grad_in) - 1) :
            /\ At(grads[2], t) = RevState(A_in, grad_in, t)
            /\ At(grads[2], t) = DLossDBX(A_in, grad_in, t, t)

C4_Witness ==
    /\ pc = "backwarded"
    /\ EqualLengths
    /\ Len(grad_in) = 6
    /\ grad_in = ramp(6)
    /\ At(grads[2], 0) > 100

\* C5: the first value PScan.backward returns is Q with Q_0 = 0 and
\* Q_t = h_{t-1} * g_t for t >= 1, and both returned gradients have the length L
\* of the inputs, also when L is not a power of two
C5_GradDeltaA ==
    (pc = "backwarded" /\ EqualLengths) =>
        /\ Len(grads[1]) = Len(X_in)
        /\ Len(grads[2]) = Len(X_in)
        /\ At(grads[1], 0) = 0
        /\ \A t \in 1..(Len(X_in) - 1) :
            /\ At(grads[1], t) = At(hs, t - 1) * At(grads[2], t)
            /\ At(grads[1], t) = SeqState(A_in, X_in, t) * RevState(A_in, grad_in, t)

C5_Witness ==
    /\ pc = "backwarded"
    /\ EqualLengths
    /\ Len(X_in) = 5
    /\ At(grads[1], 4) > 10
    /\ At(grads[1], 1) # At(grads[1], 4)

\* C6: a call with deltaA and BX of different lengths ends in an error and
\* returns no tensor
C6_MismatchRaises ==
    (~EqualLengths /\ pc # "ready") => pc = "fwd_error"

\* C8: for L not a power of two PScan.forward pads to npo2(L), the smallest
\* power of two >= L, scans, and returns the first L positions, which are the
\* states of the un-padded sequential recurrence; L = npo2(L) exactly for the
\* powers of two
C8_PaddingNeutral ==
    LET L == Len(X_in) IN
    /\ IsPow2(npo2(L)) /\ npo2(L) >= L /\ npo2(L) < 2 * L
    /\ (L = npo2(L)) <=> IsPow2(L)
    /\ (EqualLengths /\ ~IsPow2(L) /\ pc # "ready") =>
        /\ Returned
        /\ Len(ctx[2]) = npo2(L)
        /\ Len(hs) = L
        /\ hs = scan_seq(A_in, X_in)
        /\ hs = SubSeq(ctx[2], 1, L)

C8_Witness ==
    /\ pc = "forwarded"
    /\ EqualLengths
    /\ Len(X_in) = 17
    /\ Len(ctx[2]) = 32
    /\ At(hs, 16) > At(X_in, 16)

\* C3: after t+1 calls of MambaBlock.step from the zero cache the output of the
\* last call is row t of MambaBlock.forward on the same t+1 inputs, for every
\* configuration
C3_StepMatchesForward ==
    fwd.done =>
        /\ spc = "ok"
        /\ ~fwd.raised
        /\ y = fwd.out[Len(us)]

\* the x-branch input of the first step, as the convolution and silu leave it
FirstX == step_x(config, ZeroCache(config).inputs \o <<chunk_x(config, in_proj(config, us[1]))>>)

XHistory ==
    [i \in 1..(config.d_conv - 1) |-> zeros(config.d_inner)]
    \o [t \in 1..Len(us) |-> chunk_x(config, in_proj(config, us[t]))]

\* C9: after any number of steps from the zero buffer the rolling buffer has
\* length d_conv - 1 and holds, oldest first, the last d_conv - 1 inputs of the
\* x branch, zeros standing for the inputs before the start
C9_RollingBuffer ==
    spc = "ok" =>
        /\ Len(cache.inputs) = config.d_conv - 1
        /\ cache.inputs = SubSeq(XHistory, Len(us) + 1, Len(us) + config.d_conv - 1)

\* C10: the hidden state a step returns has the shape batch x d_inner x d_state,
\* and the next step accepts it
C10_StateShape ==
    /\ spc # "error"
    /\ ~cache.h_none =>
        cache.h_shape = <<config.batch, config.d_inner, config.d_state>>

\* C11: PScan.forward and PScan.backward leave the tensors they are given as
\* they were.  On deltaA and BX of one length L, power of two or not: once
\* forward is over (returned or raised) the caller's deltaA and BX hold what
\* they held; the transition coefficients recorded for backward are the
\* original deltaA and the recorded X is the scan buffer; once backward is over
\* the caller's upstream gradient holds what it held and the recorded tensors
\* are still the original deltaA and the buffer forward left.
C11_ArgumentsUntouched ==
    EqualLengths =>
        /\ pc \in {"forwarded", "fwd_error", "backwarded", "bwd_error"} =>
            /\ mem.A_in = A_in
            /\ mem.X_in = X_in
        /\ pc \in {"forwarded", "backwarded", "bwd_error"} =>
            /\ ctx[1] = A_in
            /\ ctx[2] = PScan_forward(A_in, X_in).buf
        /\ pc \in {"backwarded", "bwd_error"} =>
            mem.grad_output_in = grad_in

\* forward cloned a power-of-two input and backward cloned its gradient, and
\* the combine rounds changed both copies; and the same on padded copies
C11_Witness ==
    /\ pc = "backwarded"
    /\ EqualLengths
    /\ Len(X_in) \in {4, 6}
    /\ ctx[2] # pad_npo2(X_in)
    /\ grads[2] # grad_in
    /\ mem.grad_output_in # <<>>

====
